---------------------------- MODULE Spec2Model ----------------------------
(***************************************************************************)
(* A model of the NTRIP client session engine of ntrip_client:             *)
(*   src/src/ntrip_client/ntrip_client.py  (NTRIPClient)                   *)
(*   src/src/ntrip_client/nmea_parser.py   (NMEAParser)                    *)
(*                                                                         *)
(* Text is modelled as a sequence of character codes (ord values), so the  *)
(* checksum, the hexadecimal parse and the line-ending normalisation are   *)
(* computed the way the Python code computes them.  A server response is   *)
(* modelled as the sequence of text fragments it is made of; "marker in    *)
(* response" is the presence of the marker among the fragments.            *)
(*                                                                         *)
(* Three specifications share the state and the operators:                 *)
(*   Spec      the client under a host that calls connect, disconnect,     *)
(*             reconnect, send_nmea and shutdown;                          *)
(*   SpecRtcm  the client under a host that calls connect, recv_rtcm and   *)
(*             shutdown while time passes;                                 *)
(*   SpecNmea  NMEAParser.is_valid_sentence alone, over framed sentences.  *)
(***************************************************************************)
EXTENDS Integers, Sequences, FiniteSets, TLC

(***************************************************************************)
(* Bounds of the model                                                     *)
(***************************************************************************)
\* largest configured reconnect_attempt_max explored (configured values 1..bound)
MaxReconnectAttemptMax == 2
\* cap on _nmea_send_failed_count, which the code lets grow without limit
MaxSendFailedCount == 6
\* cap on the _reconnect_attempt_count an exception of connect() may leave behind
MaxLeftAttemptCount == 2
\* time.time() when the client is constructed, and the latest time explored
StartTime == 10
MaxTime == 14
\* most chunks of full size one recv_rtcm reads before the short one
MaxFullChunks == 1
\* cap on _read_zero_bytes_count, which an exception of reconnect() leaves
\* at its maximum
MaxReadZeroBytesCount == 5
\* longest data field of the short sentences handed to the validator alone
MaxDataLength == 2

(***************************************************************************)
(* Program constants                                                       *)
(***************************************************************************)
_CHUNK_SIZE == 1024
DEFAULT_RTCM_TIMEOUT_SECONDS == 4
_read_zero_bytes_max == 5
NMEA_DEFAULT_MAX_LENGTH == 82
NMEA_DEFAULT_MIN_LENGTH == 3
\* "*"
_NMEA_CHECKSUM_SEPERATOR == 42
_nmea_send_failed_max == 5

_SOURCETABLE_RESPONSES == {"SOURCETABLE 200 OK"}
_SUCCESS_RESPONSES == {"ICY 200 OK", "HTTP/1.0 200 OK", "HTTP/1.1 200 OK"}
_UNAUTHORIZED_RESPONSES == {"401"}

(***************************************************************************)
(* Characters (ord values)                                                 *)
(***************************************************************************)
CR == 13
LF == 10
DOLLAR == 36
BANG == 33
BACKSLASH == 92
LOWER_R == 114
LOWER_N == 110
DIGIT_0 == 48
UNDERSCORE == 95
PLUS == 43
MINUS == 45
LOWER_X == 120
UPPER_X == 88

CRLF == <<CR, LF>>
\* the four characters backslash, r, backslash, n
ESCAPED_CRLF == <<BACKSLASH, LOWER_R, BACKSLASH, LOWER_N>>

\* the characters Python's int() strips from both ends of its argument
Whitespace == {9, 10, 11, 12, 13, 28, 29, 30, 31, 32}

(***************************************************************************)
(* Python string helpers                                                   *)
(***************************************************************************)
\* s[-n:]
LastChars(s, n) ==
    IF Len(s) <= n THEN s ELSE SubSeq(s, Len(s) - n + 1, Len(s))

\* s[:-n]
DropLast(s, n) ==
    IF Len(s) <= n THEN <<>> ELSE SubSeq(s, 1, Len(s) - n)

\* c in s
Contains(s, c) == \E i \in DOMAIN s : s[i] = c

FirstIndexOf(s, c) ==
    CHOOSE i \in DOMAIN s : s[i] = c /\ \A j \in DOMAIN s : s[j] = c => i <= j

\* index of the last occurrence of c in s (s contains c)
LastIndexOf(s, c) ==
    CHOOSE i \in DOMAIN s : s[i] = c /\ \A j \in DOMAIN s : s[j] = c => j <= i

RECURSIVE LStrip(_)
LStrip(s) ==
    IF s # <<>> /\ Head(s) \in Whitespace THEN LStrip(Tail(s)) ELSE s

RECURSIVE RStrip(_)
RStrip(s) ==
    IF s # <<>> /\ s[Len(s)] \in Whitespace THEN RStrip(DropLast(s, 1)) ELSE s

\* a ^ b on non-negative integers
RECURSIVE BitXor(_, _)
BitXor(a, b) ==
    IF a = 0 THEN b
    ELSE IF b = 0 THEN a
    ELSE (((a % 2) + (b % 2)) % 2) + 2 * BitXor(a \div 2, b \div 2)

IsHexDigit(c) ==
    \/ c \in 48..57
    \/ c \in 65..70
    \/ c \in 97..102

HexDigitValue(c) ==
    IF c \in 48..57 THEN c - 48
    ELSE IF c \in 65..70 THEN c - 55
    ELSE c - 87

\* value of a run of hex digits in which underscores are skipped
RECURSIVE HexDigitsValue(_)
HexDigitsValue(s) ==
    IF s = <<>> THEN 0
    ELSE IF s[Len(s)] = UNDERSCORE THEN HexDigitsValue(DropLast(s, 1))
    ELSE HexDigitValue(s[Len(s)]) + 16 * HexDigitsValue(DropLast(s, 1))

\* digits, single underscores allowed between digits (and, when a 0x prefix
\* precedes, one underscore right after the prefix)
WellFormedDigits(s, afterPrefix) ==
    /\ s # <<>>
    /\ \A i \in DOMAIN s : IsHexDigit(s[i]) \/ s[i] = UNDERSCORE
    /\ IsHexDigit(s[Len(s)])
    /\ afterPrefix \/ IsHexDigit(s[1])
    /\ \A i \in 1..(Len(s) - 1) : ~(s[i] = UNDERSCORE /\ s[i + 1] = UNDERSCORE)

\* int(text, 16): [ok |-> FALSE] stands for ValueError
ParseHex(text) ==
    LET stripped == RStrip(LStrip(text))
        signed   == stripped # <<>> /\ stripped[1] \in {PLUS, MINUS}
        negative == signed /\ stripped[1] = MINUS
        unsigned == IF signed THEN Tail(stripped) ELSE stripped
        prefixed == /\ Len(unsigned) >= 2
                    /\ unsigned[1] = DIGIT_0
                    /\ unsigned[2] \in {LOWER_X, UPPER_X}
                    /\ WellFormedDigits(SubSeq(unsigned, 3, Len(unsigned)), TRUE)
        digits   == IF prefixed THEN SubSeq(unsigned, 3, Len(unsigned)) ELSE unsigned
    IN  IF WellFormedDigits(digits, prefixed)
        THEN [ok |-> TRUE,
              value |-> IF negative THEN 0 - HexDigitsValue(digits)
                        ELSE HexDigitsValue(digits)]
        ELSE [ok |-> FALSE, value |-> 0]

\* the XOR of the character codes of s; the loop of lines 47-48 folds them
\* from the left, and XOR being associative the halves are folded apart here
RECURSIVE calculated_checksum(_)
calculated_checksum(s) ==
    IF s = <<>> THEN 0
    ELSE IF Len(s) = 1 THEN s[1]
    ELSE BitXor(calculated_checksum(SubSeq(s, 1, Len(s) \div 2)),
                calculated_checksum(SubSeq(s, Len(s) \div 2 + 1, Len(s))))

(***************************************************************************)
(* NMEAParser.is_valid_sentence: "True", "False" or "ValueError"           *)
(***************************************************************************)
is_valid_sentence(sentence) ==
    IF Len(sentence) > NMEA_DEFAULT_MAX_LENGTH THEN "False"
    ELSE IF Len(sentence) < NMEA_DEFAULT_MIN_LENGTH THEN "False"
    ELSE IF sentence[1] # DOLLAR /\ sentence[1] # BANG THEN "False"
    ELSE IF LastChars(sentence, 2) # CRLF THEN "False"
    ELSE IF ~Contains(sentence, _NMEA_CHECKSUM_SEPERATOR) THEN "False"
    ELSE LET k == LastIndexOf(sentence, _NMEA_CHECKSUM_SEPERATOR)
             data == SubSeq(sentence, 1, k - 1)
             expected_checksum_str == SubSeq(sentence, k + 1, Len(sentence))
             expected_checksum == ParseHex(expected_checksum_str)
         IN  IF ~expected_checksum.ok THEN "ValueError"
             ELSE IF expected_checksum.value # calculated_checksum(Tail(data))
                  THEN "False"
             ELSE "True"

(***************************************************************************)
(* NTRIPClient.send_nmea, line-ending normalisation                        *)
(***************************************************************************)
normalize_sentence(sentence) ==
    IF LastChars(sentence, 4) = ESCAPED_CRLF THEN DropLast(sentence, 4) \o CRLF
    ELSE IF LastChars(sentence, 2) # CRLF THEN sentence \o CRLF
    ELSE sentence


(***************************************************************************)
(* Inputs                                                                  *)
(***************************************************************************)
RECURSIVE Repeat(_, _)
Repeat(c, n) == IF n = 0 THEN <<>> ELSE <<c>> \o Repeat(c, n - 1)

\* The sentences the host hands to send_nmea.
Sentences ==
    { <<36, 65, 42, 52, 49, 13, 10>>,           \* $A*41 CR LF     valid
      <<36, 65, 42, 52, 49>>,                   \* $A*41           no line ending
      <<36, 65, 42, 52, 49, 92, 114, 92, 110>>, \* $A*41\r\n       escaped line ending
      <<33, 65, 66, 42, 48, 51, 13, 10>>,       \* !AB*03 CR LF    valid
      <<36, 65, 42, 52, 50, 13, 10>>,           \* $A*42 CR LF     checksum mismatch
      <<36, 65, 42, 90, 90, 13, 10>>,           \* $A*ZZ CR LF     checksum not hex
      <<65, 42, 52, 49, 13, 10>>,               \* A*41 CR LF      no sentinel
      <<36, 65, 52, 49, 13, 10>>,               \* $A41 CR LF      no separator
      <<>>,                                     \* empty
      <<36>> \o Repeat(65, 81) \o <<42, 52, 49, 13, 10>> }  \* 87 characters

\* The sentences handed to the validator alone: a sentinel, a data field, "*",
\* two hexadecimal digits, CR LF.  The data fields are the short ones over
\* "A", "B" and "*", the one that makes a sentence of the greatest length
\* allowed, and the one that makes it one character longer.
DataChars == {65, 66, 42}
HexChars == {48, 49, 51, 52, 54, 56, 66, 98}
RECURSIVE Texts(_, _)
Texts(chars, n) ==
    IF n = 0 THEN {<<>>}
    ELSE Texts(chars, n - 1)
         \cup {<<c>> \o s : c \in chars,
                            s \in {x \in Texts(chars, n - 1) : Len(x) = n - 1}}
FramedLength == Len(<<DOLLAR, _NMEA_CHECKSUM_SEPERATOR, DIGIT_0, DIGIT_0>> \o CRLF)
DataFields ==
    Texts(DataChars, MaxDataLength)
    \cup {Repeat(65, NMEA_DEFAULT_MAX_LENGTH - FramedLength),
          Repeat(65, NMEA_DEFAULT_MAX_LENGTH - FramedLength + 1)}
FramedSentences ==
    {<<sentinel>> \o data \o <<_NMEA_CHECKSUM_SEPERATOR, high, low>> \o CRLF :
        sentinel \in {DOLLAR, BANG}, data \in DataFields,
        high \in HexChars, low \in HexChars}

\* The responses a caster sends to the request, as the fragments they hold.
Responses ==
    { <<>>,
      <<"ICY 200 OK">>,
      <<"HTTP/1.0 200 OK">>,
      <<"HTTP/1.1 200 OK">>,
      <<"SOURCETABLE 200 OK">>,
      <<"401">>,
      <<"ICY 200 OK", "SOURCETABLE 200 OK">>,
      <<"HTTP/1.1 200 OK", "401">>,
      <<"SOURCETABLE 200 OK", "401">> }

\* What the transport does during one connect(): the socket connect fails,
\* the TLS wrap fails, the request cannot be sent, the response cannot be
\* read, or a response is read.
NoResponse == <<"-">>
Outcomes ==
    [kind : {"connect_error", "ssl_error", "send_error", "recv_error"},
     response : {NoResponse}]
    \cup [kind : {"response"}, response : Responses]
NoOutcome == [kind |-> "none", response |-> NoResponse]

\* self._ntrip_version: None is written "None"
Versions == {"None", "", "Ntrip/2.0"}


(***************************************************************************)
(* State                                                                   *)
(***************************************************************************)
VARIABLES
    ntrip_version,             \* self._ntrip_version            (configuration)
    use_ssl,                   \* self.ssl                       (configuration)
    reconnect_attempt_max,     \* self.reconnect_attempt_max     (configuration)
    rtcm_timeout_seconds,      \* self.rtcm_timeout_seconds      (configuration)
    now,                       \* time.time()
    _read_zero_bytes_count,    \* self._read_zero_bytes_count
    _first_rtcm_received,      \* self._first_rtcm_received
    _recv_rtcm_last_packet_timestamp,  \* self._recv_rtcm_last_packet_timestamp
    _connected,                \* self._connected
    _shutdown,                 \* self._shutdown
    _reconnect_attempt_count,  \* self._reconnect_attempt_count
    _nmea_send_failed_count,   \* self._nmea_send_failed_count
    pc,       \* where the client's thread is: "idle" (no call running),
              \* "connect" (inside a connect() the host called),
              \* "reconnect_connect" (inside the connect() of a reconnect loop),
              \* "reconnect_sleep" (inside the sleep of a reconnect loop),
              \* "reconnect_done" (reconnect() has returned to its caller)
    caller,   \* who called the running reconnect(): "host", "send_nmea", or
              \* recv_rtcm at line 270 ("recv_rtcm_watchdog"), at line 290
              \* ("recv_rtcm_closed") or at line 303 ("recv_rtcm_zero")
    sentence, \* the local variable sentence of the send_nmea that called reconnect()
    event,    \* what the last step did (observation only)
    call_sends,       \* transport sends attempted by the running host call
    call_reconnects,  \* reconnect() calls made by the running host call
    rc_attempts,      \* connect() calls made by the running reconnect()
    rc_all_failed,    \* every connect() of the running reconnect() returned False
    rc_from_zero,     \* the running reconnect() began with the attempt counter at 0
    call_read,        \* the chunks the running host call read from the transport
    call_parsed,      \* the chunks the running host call handed to rtcm_parser.parse
    call_watchdog,    \* the running host call called reconnect() at line 270
    fresh_since       \* <<t>>: the connection was made at time t by a reconnect()
                      \* that send_nmea or recv_rtcm line 290 or 303 called
                      \* and that returned; <<>> otherwise

config == <<ntrip_version, use_ssl, reconnect_attempt_max, rtcm_timeout_seconds>>
vars == <<ntrip_version, use_ssl, reconnect_attempt_max, rtcm_timeout_seconds,
          now, _read_zero_bytes_count, _first_rtcm_received,
          _recv_rtcm_last_packet_timestamp, call_read, call_parsed,
          call_watchdog, fresh_since, _connected, _shutdown,
          _reconnect_attempt_count, _nmea_send_failed_count, pc, caller,
          sentence, event, call_sends, call_reconnects, rc_attempts,
          rc_all_failed, rc_from_zero>>

\* The state as a record, for the operators that model the methods.
\*   op      the method the step ran
\*   arg     the sentence it was given
\*   outcome what the transport did in the step's connect()
\*   ret     the return value of the step's connect(): "True", "False",
\*           "raise" (an exception left it) or "none"
\*   sent    a sentence was handed to the transport; wire is that sentence
\*   result  "continue" (the host's call is still running), "return" (it
\*           returned), or the exception that left it
\*   delivered  the transport accepted the sentence
\*   watchdog   the step called reconnect() at line 270
\*   transport_teardown  what the transport does when the step's disconnect()
\*           shuts it down and closes it (an input of the step)
\*   logged  exceptions the step's disconnect() caught and logged
\*   escaped the exception that left the step's disconnect(), or "none"
Self ==
    [connected |-> _connected, shutdown |-> _shutdown,
     reconnect_attempt_count |-> _reconnect_attempt_count,
     nmea_send_failed_count |-> _nmea_send_failed_count,
     read_zero_bytes_count |-> _read_zero_bytes_count,
     first_rtcm_received |-> _first_rtcm_received,
     recv_rtcm_last_packet_timestamp |-> _recv_rtcm_last_packet_timestamp,
     call_read |-> call_read, call_parsed |-> call_parsed,
     call_watchdog |-> call_watchdog, fresh_since |-> fresh_since,
     watchdog |-> FALSE,
     pc |-> pc, caller |-> caller, sentence |-> sentence,
     call_sends |-> call_sends, call_reconnects |-> call_reconnects,
     rc_attempts |-> rc_attempts, rc_all_failed |-> rc_all_failed,
     rc_from_zero |-> rc_from_zero,
     op |-> "none", arg |-> <<>>, outcome |-> NoOutcome, ret |-> "none",
     sent |-> FALSE, wire |-> <<>>, result |-> "continue",
     delivered |-> FALSE, transport_teardown |-> "ok", logged |-> 0,
     escaped |-> "none"]

Becomes(s) ==
    /\ _connected' = s.connected
    /\ _shutdown' = s.shutdown
    /\ _reconnect_attempt_count' = s.reconnect_attempt_count
    /\ _nmea_send_failed_count' = s.nmea_send_failed_count
    /\ _read_zero_bytes_count' = s.read_zero_bytes_count
    /\ _first_rtcm_received' = s.first_rtcm_received
    /\ _recv_rtcm_last_packet_timestamp' = s.recv_rtcm_last_packet_timestamp
    /\ call_read' = s.call_read
    /\ call_parsed' = s.call_parsed
    /\ call_watchdog' = s.call_watchdog
    /\ fresh_since' = s.fresh_since
    /\ pc' = s.pc
    /\ caller' = s.caller
    /\ sentence' = s.sentence
    /\ call_sends' = s.call_sends
    /\ call_reconnects' = s.call_reconnects
    /\ rc_attempts' = s.rc_attempts
    /\ rc_all_failed' = s.rc_all_failed
    /\ rc_from_zero' = s.rc_from_zero
    /\ event' = [op |-> s.op, arg |-> s.arg, outcome |-> s.outcome,
                 ret |-> s.ret, sent |-> s.sent, wire |-> s.wire,
                 result |-> s.result, delivered |-> s.delivered,
                 logged |-> s.logged, escaped |-> s.escaped,
                 watchdog |-> s.watchdog]
    /\ UNCHANGED <<config, now>>

\* A call by the host starts: the per-call tallies start afresh.
HostCall(s, name) ==
    [s EXCEPT !.op = name, !.caller = "host", !.sentence = <<>>,
              !.call_sends = 0, !.call_reconnects = 0,
              !.call_read = <<>>, !.call_parsed = <<>>,
              !.call_watchdog = FALSE,
              !.rc_attempts = 0, !.rc_all_failed = TRUE,
              !.rc_from_zero = TRUE]

\* The running call returns to the host, or an exception leaves it.
Return(s) == [s EXCEPT !.pc = "idle", !.result = "return"]
Raise(s, exception) == [s EXCEPT !.pc = "idle", !.result = exception]

(***************************************************************************)
(* NTRIPClient.connect                                                     *)
(***************************************************************************)
\* any(marker in response for marker in markers)
any_in(markers, response) ==
    \E i \in DOMAIN response : response[i] \in markers

version_unset(version) == version \in {"None", ""}

known_error_unless_connected(response, connected, version) ==
    IF ~connected /\ any_in(_SOURCETABLE_RESPONSES, response) THEN TRUE
    ELSE IF ~connected /\ any_in(_UNAUTHORIZED_RESPONSES, response) THEN TRUE
    ELSE IF ~connected /\ version_unset(version) THEN TRUE
    ELSE FALSE

known_error_version_unset(response, connected, version) ==
    IF any_in(_SOURCETABLE_RESPONSES, response) THEN TRUE
    ELSE IF any_in(_UNAUTHORIZED_RESPONSES, response) THEN TRUE
    ELSE IF version_unset(version) THEN TRUE
    ELSE FALSE

\* known_error, given the response and self._connected as line 163-164 left it
known_error(response, connected, version) ==
    IF any_in(_SOURCETABLE_RESPONSES, response) THEN TRUE
    ELSE IF any_in(_UNAUTHORIZED_RESPONSES, response) THEN TRUE
    ELSE IF ~connected /\ version_unset(version) THEN TRUE
    ELSE FALSE

\* self._connected after line 163-164
connected_after_response(response, connected) ==
    IF any_in(_SUCCESS_RESPONSES, response) THEN TRUE ELSE connected

\* connect() with the transport behaving as outcome: the state it leaves and,
\* in ret, what it returns
connect(s, outcome) ==
    LET o == [s EXCEPT !.outcome = outcome] IN
    IF outcome.kind = "connect_error" THEN [o EXCEPT !.ret = "False"]
    ELSE IF outcome.kind = "ssl_error" THEN [o EXCEPT !.ret = "raise"]
    ELSE IF outcome.kind = "send_error" THEN [o EXCEPT !.ret = "False"]
    ELSE IF outcome.kind = "recv_error" THEN [o EXCEPT !.ret = "False"]
    ELSE LET c == connected_after_response(outcome.response, s.connected)
         IN  IF known_error(outcome.response, c, ntrip_version) \/ ~c
             THEN [o EXCEPT !.connected = c, !.ret = "False"]
             ELSE [o EXCEPT !.connected = c, !.ret = "True"]

\* the outcomes the transport can produce under the configuration
PossibleOutcomes ==
    {o \in Outcomes :
        o.kind = "ssl_error" =>
            use_ssl /\ _reconnect_attempt_count <= MaxLeftAttemptCount}

(***************************************************************************)
(* NTRIPClient.disconnect                                                  *)
(***************************************************************************)
\* What the transport does when disconnect() shuts the sockets down and
\* closes them: nothing wrong, shutdown() raises, close() raises, or both do.
Teardowns == {"ok", "shutdown_error", "close_error", "both_errors"}
shutdown_raises(teardown) == teardown \in {"shutdown_error", "both_errors"}
close_raises(teardown) == teardown \in {"close_error", "both_errors"}

\* the outcomes to tell apart in a step: all of them when the step can reach
\* disconnect(), one when it cannot
TeardownsWhen(reaches_disconnect) ==
    IF reaches_disconnect THEN Teardowns ELSE {"ok"}

\* lines 195-201: the sockets are shut down; an exception is logged and dropped
disconnect_shutdown(s) ==
    IF shutdown_raises(s.transport_teardown)
    THEN [s EXCEPT !.logged = @ + 1]
    ELSE s

disconnect_close_unguarded(s) ==
    IF close_raises(s.transport_teardown)
    THEN [s EXCEPT !.escaped = "OSError"]
    ELSE s

\* lines 203-210: the sockets are closed; an exception is logged and dropped
disconnect_close(s) ==
    IF close_raises(s.transport_teardown)
    THEN [s EXCEPT !.logged = @ + 1]
    ELSE s

disconnect(s) ==
    LET a == disconnect_shutdown([s EXCEPT !.connected = FALSE])
    IN  IF a.escaped # "none" THEN a ELSE disconnect_close(a)

\* disconnect() ends: it returns, or the exception that escaped it leaves it
disconnect_ends(s) ==
    IF s.escaped # "none" THEN Raise(s, s.escaped) ELSE Return(s)

(***************************************************************************)
(* NTRIPClient.reconnect                                                   *)
(***************************************************************************)
\* reconnect() returns to its caller
reconnect_returns(s) == [s EXCEPT !.pc = "reconnect_done"]

loop_condition_forever(shutdown) == TRUE

\* while not self._shutdown
loop_condition(shutdown) == ~shutdown

\* the top of the loop and, when the loop goes on, the iteration up to the
\* call of connect()
reconnect_loop(s) ==
    IF loop_condition(s.shutdown)
    THEN [disconnect([s EXCEPT !.reconnect_attempt_count = @ + 1])
             EXCEPT !.pc = "reconnect_connect", !.rc_attempts = @ + 1]
    ELSE reconnect_returns(s)

\* reconnect() is called
reconnect(s) ==
    LET r == [s EXCEPT !.call_reconnects = @ + 1,
                       !.rc_attempts = 0, !.rc_all_failed = TRUE,
                       !.rc_from_zero = (s.reconnect_attempt_count = 0)] IN
    IF s.connected THEN reconnect_loop(r) ELSE reconnect_returns(r)

\* the rest of the iteration, after connect() has returned s.ret
reconnect_after_connect(s) ==
    LET r == [s EXCEPT !.rc_all_failed = @ /\ s.ret = "False"] IN
    IF s.ret = "raise" THEN Raise(r, "ssl")
    ELSE IF s.ret = "False" /\ s.reconnect_attempt_count < reconnect_attempt_max
    THEN [r EXCEPT !.pc = "reconnect_sleep"]
    ELSE IF s.reconnect_attempt_count >= reconnect_attempt_max
    THEN Raise([r EXCEPT !.reconnect_attempt_count = 0], "reconnect_exhausted")
    ELSE reconnect_returns(
             [r EXCEPT !.reconnect_attempt_count = 0,
                       !.fresh_since =
                           IF s.caller \in {"send_nmea", "recv_rtcm_closed",
                                            "recv_rtcm_zero"}
                           THEN <<now>> ELSE <<>>])

(***************************************************************************)
(* NTRIPClient.send_nmea                                                   *)
(***************************************************************************)
validate_nothing(text) == "True"

\* the check of line 243
validate(text) == is_valid_sentence(text)

count_after_reconnect_kept(count) == count

\* self._nmea_send_failed_count after reconnect() has returned (line 257)
count_after_reconnect(count) == 0

\* send_nmea(text), the transport accepting the sentence iff send_ok
send_nmea(s, text, send_ok) ==
    IF ~s.connected THEN Return(s)
    ELSE LET normalized == normalize_sentence(text)
             valid == validate(normalized)
         IN  IF valid = "ValueError" THEN Raise(s, "ValueError")
             ELSE IF valid = "False" THEN Return(s)
             ELSE LET t == [s EXCEPT !.sent = TRUE, !.wire = normalized,
                                     !.call_sends = @ + 1]
                      f == [t EXCEPT !.nmea_send_failed_count = @ + 1]
                  IN  IF send_ok THEN Return([t EXCEPT !.delivered = TRUE])
                      ELSE IF f.nmea_send_failed_count >= _nmea_send_failed_max
                      THEN reconnect([f EXCEPT !.caller = "send_nmea",
                                               !.sentence = normalized])
                      ELSE Return(f)

\* send_nmea after its reconnect() has returned: lines 257-258
send_nmea_after_reconnect(s, send_ok) ==
    send_nmea([s EXCEPT !.nmea_send_failed_count = count_after_reconnect(@)],
              s.sentence, send_ok)

(***************************************************************************)
(* NTRIPClient.recv_rtcm                                                   *)
(*                                                                         *)
(* The bytes read are modelled as the sequence of the lengths of the       *)
(* non-empty chunks they arrived in; len(data) == 0 is data = <<>>.        *)
(***************************************************************************)
\* What select.select reports at line 274: the socket is readable, it is
\* not, or the call raises.
Selects == {"ready", "none", "error"}

\* What the read loop of lines 281-292 meets: some chunks of full size and
\* then a chunk of zero bytes, a shorter chunk, or an exception.
Reads == [full : 0..MaxFullChunks, last : {"empty", "short", "error"}]

\* What the peek of _socket_is_open meets.
Probes == {"no_bytes", "bytes", "BlockingIOError", "ConnectionResetError",
           "timeout", "other_error"}

\* What the transport does during one recv_rtcm(): the reads follow only
\* when the socket is readable, the peek only when a read raised.
Polls ==
    [select : {"none", "error"}, read : {[full |-> 0, last |-> "empty"]},
     probe : {"bytes"}]
    \cup [select : {"ready"},
          read : {r \in Reads : r.last # "error"}, probe : {"bytes"}]
    \cup [select : {"ready"},
          read : {r \in Reads : r.last = "error"}, probe : Probes]

_socket_is_open(probe) ==
    IF probe = "no_bytes" THEN FALSE
    ELSE IF probe = "BlockingIOError" THEN TRUE
    ELSE IF probe = "ConnectionResetError" THEN FALSE
    ELSE IF probe = "timeout" THEN TRUE
    ELSE IF probe = "other_error" THEN FALSE
    ELSE TRUE

\* data when the loop ends
data_read(read) ==
    Repeat(_CHUNK_SIZE, read.full)
        \o (IF read.last = "short" THEN <<_CHUNK_SIZE - 1>> ELSE <<>>)

\* the condition of line 268
watchdog_due(s) ==
    /\ now - rtcm_timeout_seconds >= s.recv_rtcm_last_packet_timestamp
    /\ s.first_rtcm_received

\* lines 278-312: the socket is readable
recv_rtcm_read(s, read, probe) ==
    LET data == data_read(read)
        r == [s EXCEPT !.call_read = @ \o data]
        z == [r EXCEPT !.read_zero_bytes_count = @ + 1]
    IN  IF read.last = "error" /\ ~_socket_is_open(probe)
        THEN reconnect([r EXCEPT !.caller = "recv_rtcm_closed"])
        ELSE IF data = <<>>
        THEN IF z.read_zero_bytes_count >= _read_zero_bytes_max
             THEN reconnect([z EXCEPT !.caller = "recv_rtcm_zero"])
             ELSE Return(z)
        ELSE Return([r EXCEPT !.recv_rtcm_last_packet_timestamp = now,
                              !.first_rtcm_received = TRUE,
                              !.call_parsed = @ \o data])

\* lines 273-312
recv_rtcm_poll(s, select, read, probe) ==
    IF select = "error" THEN Raise(s, "select_error")
    ELSE IF select = "none" THEN Return(s)
    ELSE recv_rtcm_read(s, read, probe)

\* recv_rtcm() is called
recv_rtcm(s, select, read, probe) ==
    IF ~s.connected THEN Return(s)
    ELSE IF watchdog_due(s)
    THEN reconnect([s EXCEPT !.caller = "recv_rtcm_watchdog",
                             !.watchdog = TRUE, !.call_watchdog = TRUE])
    ELSE recv_rtcm_poll(s, select, read, probe)

\* recv_rtcm after the reconnect() of line 270 has returned
recv_rtcm_after_watchdog(s, select, read, probe) ==
    recv_rtcm_poll([s EXCEPT !.first_rtcm_received = FALSE],
                   select, read, probe)

\* recv_rtcm after the reconnect() of line 290 has returned
recv_rtcm_after_closed(s) == Return(s)

\* recv_rtcm after the reconnect() of line 303 has returned
recv_rtcm_after_zero(s) == Return([s EXCEPT !.read_zero_bytes_count = 0])

(***************************************************************************)
(* NTRIPClient.shutdown                                                    *)
(***************************************************************************)
shutdown(s) == disconnect([s EXCEPT !.shutdown = TRUE])

(***************************************************************************)
(* Initial state: NTRIPClient.__init__                                     *)
(*                                                                         *)
(* __init__ hands nmea_min_length and nmea_max_length to NMEAParser, whose *)
(* constructor takes neither and sets its limits to the module defaults;   *)
(* the parser of the model is the one with those defaults.                 *)
(***************************************************************************)
Init ==
    /\ ntrip_version \in Versions
    /\ use_ssl \in BOOLEAN
    /\ reconnect_attempt_max \in 1..MaxReconnectAttemptMax
    /\ _connected = FALSE
    /\ _shutdown = FALSE
    /\ _reconnect_attempt_count = 0
    /\ _nmea_send_failed_count = 0
    /\ pc = "idle"
    /\ caller = "host"
    /\ sentence = <<>>
    /\ event = [op |-> "init", arg |-> <<>>, outcome |-> NoOutcome,
                ret |-> "none", sent |-> FALSE, wire |-> <<>>,
                result |-> "return", delivered |-> FALSE, logged |-> 0,
                escaped |-> "none", watchdog |-> FALSE]
    /\ rtcm_timeout_seconds = DEFAULT_RTCM_TIMEOUT_SECONDS
    /\ now = StartTime
    /\ _read_zero_bytes_count = 0
    /\ _first_rtcm_received = FALSE
    /\ _recv_rtcm_last_packet_timestamp = 0
    /\ call_read = <<>>
    /\ call_parsed = <<>>
    /\ call_watchdog = FALSE
    /\ fresh_since = <<>>
    /\ call_sends = 0
    /\ call_reconnects = 0
    /\ rc_attempts = 0
    /\ rc_all_failed = TRUE
    /\ rc_from_zero = TRUE

(***************************************************************************)
(* Steps                                                                   *)
(***************************************************************************)
\* the host calls connect(); the call blocks in the transport
Connect ==
    /\ pc = "idle"
    /\ Becomes([HostCall(Self, "connect_call")
                   EXCEPT !.pc = "connect", !.fresh_since = <<>>])

\* the transport answers and connect() returns to the host
ConnectReturn ==
    /\ pc = "connect"
    /\ \E outcome \in PossibleOutcomes :
         LET c == connect([Self EXCEPT !.op = "connect"], outcome)
         IN  Becomes(IF c.ret = "raise" THEN Raise(c, "ssl") ELSE Return(c))

\* the host calls disconnect()
Disconnect ==
    /\ pc = "idle"
    /\ \E teardown \in Teardowns :
         Becomes(disconnect_ends(disconnect(
                   [HostCall(Self, "disconnect")
                       EXCEPT !.transport_teardown = teardown])))

\* the host calls reconnect()
Reconnect ==
    /\ pc = "idle"
    /\ \E teardown \in TeardownsWhen(_connected) :
         Becomes(reconnect([HostCall(Self, "reconnect")
                               EXCEPT !.transport_teardown = teardown]))

\* the transport answers the connect() of a reconnect loop
ReconnectConnectReturn ==
    /\ pc = "reconnect_connect"
    /\ \E outcome \in PossibleOutcomes :
         Becomes(reconnect_after_connect(
                   connect([Self EXCEPT !.op = "reconnect_connect"], outcome)))

\* the sleep of a reconnect loop ends
ReconnectWake ==
    /\ pc = "reconnect_sleep"
    /\ \E teardown \in TeardownsWhen(~_shutdown) :
         Becomes(reconnect_loop([Self EXCEPT !.op = "reconnect_wake",
                                            !.transport_teardown = teardown]))

\* a reconnect() the host called has returned
ReconnectReturn ==
    /\ pc = "reconnect_done"
    /\ caller = "host"
    /\ Becomes(Return([Self EXCEPT !.op = "reconnect_return"]))

\* the host calls send_nmea(text)
SendNmea ==
    /\ pc = "idle"
    /\ _nmea_send_failed_count < MaxSendFailedCount
    /\ \E text \in Sentences, send_ok \in BOOLEAN,
          teardown \in TeardownsWhen(
                          _connected /\ _nmea_send_failed_count + 1
                                           >= _nmea_send_failed_max) :
         Becomes(send_nmea([HostCall(Self, "send_nmea")
                               EXCEPT !.arg = text,
                                      !.transport_teardown = teardown],
                           text, send_ok))

\* the reconnect() that send_nmea called has returned
SendNmeaAfterReconnect ==
    /\ pc = "reconnect_done"
    /\ caller = "send_nmea"
    /\ \E send_ok \in BOOLEAN,
          teardown \in TeardownsWhen(
                          _connected /\ count_after_reconnect(
                                            _nmea_send_failed_count) + 1
                                           >= _nmea_send_failed_max) :
         Becomes(send_nmea_after_reconnect(
                   [Self EXCEPT !.op = "send_nmea_retry", !.arg = sentence,
                                !.transport_teardown = teardown],
                   send_ok))

\* shutdown() is called, also while a connect() or a reconnect loop is blocked
Shutdown ==
    /\ \E teardown \in Teardowns :
         Becomes(shutdown([Self EXCEPT !.op = "shutdown",
                                      !.transport_teardown = teardown,
                                      !.result = IF pc = "idle" THEN "return"
                                                 ELSE "continue"]))

\* the host calls recv_rtcm()
RecvRtcm ==
    /\ pc = "idle"
    /\ _read_zero_bytes_count < MaxReadZeroBytesCount
    /\ \E poll \in Polls, teardown \in TeardownsWhen(_connected) :
         Becomes(recv_rtcm([HostCall(Self, "recv_rtcm")
                               EXCEPT !.transport_teardown = teardown],
                           poll.select, poll.read, poll.probe))

\* the reconnect() that recv_rtcm called at line 270 has returned
RecvRtcmAfterWatchdog ==
    /\ pc = "reconnect_done"
    /\ caller = "recv_rtcm_watchdog"
    /\ \E poll \in Polls, teardown \in TeardownsWhen(_connected) :
         Becomes(recv_rtcm_after_watchdog(
                   [Self EXCEPT !.op = "recv_rtcm_resume",
                                !.transport_teardown = teardown],
                   poll.select, poll.read, poll.probe))

\* the reconnect() that recv_rtcm called at line 290 has returned
RecvRtcmAfterClosed ==
    /\ pc = "reconnect_done"
    /\ caller = "recv_rtcm_closed"
    /\ Becomes(recv_rtcm_after_closed([Self EXCEPT !.op = "recv_rtcm_resume"]))

\* the reconnect() that recv_rtcm called at line 303 has returned
RecvRtcmAfterZero ==
    /\ pc = "reconnect_done"
    /\ caller = "recv_rtcm_zero"
    /\ Becomes(recv_rtcm_after_zero([Self EXCEPT !.op = "recv_rtcm_resume"]))

\* time passes: the clock is looked at once every rtcm_timeout_seconds
Tick ==
    /\ now + rtcm_timeout_seconds <= MaxTime
    /\ now' = now + rtcm_timeout_seconds
    /\ UNCHANGED <<config, event, _connected, _shutdown, _reconnect_attempt_count,
                   _nmea_send_failed_count, _read_zero_bytes_count,
                   _first_rtcm_received, _recv_rtcm_last_packet_timestamp,
                   pc, caller, sentence, call_sends, call_reconnects,
                   rc_attempts, rc_all_failed, rc_from_zero, call_read,
                   call_parsed, call_watchdog, fresh_since>>

Next ==
    \/ Connect
    \/ ConnectReturn
    \/ Disconnect
    \/ Reconnect
    \/ ReconnectConnectReturn
    \/ ReconnectWake
    \/ ReconnectReturn
    \/ SendNmea
    \/ SendNmeaAfterReconnect
    \/ Shutdown

Spec == Init /\ [][Next]_vars

(***************************************************************************)
(* The validator alone: is_valid_sentence applied to a framed sentence and *)
(* to the sentences that differ from it in one character of the data field *)
(***************************************************************************)
InitNmea ==
    /\ ntrip_version = "Ntrip/2.0"
    /\ use_ssl = FALSE
    /\ reconnect_attempt_max = 1
    /\ rtcm_timeout_seconds = DEFAULT_RTCM_TIMEOUT_SECONDS
    /\ now = StartTime
    /\ _connected = FALSE
    /\ _shutdown = FALSE
    /\ _reconnect_attempt_count = 0
    /\ _nmea_send_failed_count = 0
    /\ _read_zero_bytes_count = 0
    /\ _first_rtcm_received = FALSE
    /\ _recv_rtcm_last_packet_timestamp = 0
    /\ pc = "idle"
    /\ caller = "host"
    /\ sentence \in FramedSentences
    /\ event = [op |-> "init", arg |-> <<>>, outcome |-> NoOutcome,
                ret |-> "none", sent |-> FALSE, wire |-> <<>>,
                result |-> "return", delivered |-> FALSE, logged |-> 0,
                escaped |-> "none", watchdog |-> FALSE]
    /\ call_read = <<>>
    /\ call_parsed = <<>>
    /\ call_watchdog = FALSE
    /\ fresh_since = <<>>
    /\ call_sends = 0
    /\ call_reconnects = 0
    /\ rc_attempts = 0
    /\ rc_all_failed = TRUE
    /\ rc_from_zero = TRUE

\* event.arg is the sentence given to is_valid_sentence, event.ret what it
\* returned, and event.wire the sentence that event.arg was made from
Validated(text, from) ==
    /\ event' = [event EXCEPT !.op = "is_valid_sentence", !.arg = text,
                              !.ret = is_valid_sentence(text), !.wire = from]
    /\ UNCHANGED <<config, now, _connected, _shutdown,
                   _reconnect_attempt_count, _nmea_send_failed_count,
                   _read_zero_bytes_count, _first_rtcm_received,
                   _recv_rtcm_last_packet_timestamp, pc, caller, sentence,
                   call_sends, call_reconnects, rc_attempts, rc_all_failed,
                   rc_from_zero, call_read, call_parsed, call_watchdog,
                   fresh_since>>

\* is_valid_sentence(sentence)
IsValidSentence ==
    /\ event.op = "init"
    /\ Validated(sentence, <<>>)

\* is_valid_sentence of sentence with one character of its data field changed
IsValidChangedSentence ==
    /\ event.op = "is_valid_sentence"
    /\ event.wire = <<>>
    /\ \E i \in 2..(Len(sentence) - FramedLength + 1) :
         \E c \in DataChars \ {sentence[i]} :
            Validated([sentence EXCEPT ![i] = c], sentence)

NextNmea ==
    \/ IsValidSentence
    \/ IsValidChangedSentence

SpecNmea == InitNmea /\ [][NextNmea]_vars

\* The client under a host that polls for corrections.
NextRtcm ==
    \/ Connect
    \/ ConnectReturn
    \/ ReconnectConnectReturn
    \/ ReconnectWake
    \/ RecvRtcm
    \/ RecvRtcmAfterWatchdog
    \/ RecvRtcmAfterClosed
    \/ RecvRtcmAfterZero
    \/ Tick
    \/ Shutdown

SpecRtcm == Init /\ [][NextRtcm]_vars


(***************************************************************************)
(* Properties                                                              *)
(***************************************************************************)
\* the last step ran a connect() to its end (the host's, or a reconnect loop's)
ConnectEnded == event.op \in {"connect", "reconnect_connect"}
GotResponse == ConnectEnded /\ event.outcome.kind = "response"
HasSuccess == any_in(_SUCCESS_RESPONSES, event.outcome.response)
HasSourcetable == any_in(_SOURCETABLE_RESPONSES, event.outcome.response)
HasUnauthorized == any_in(_UNAUTHORIZED_RESPONSES, event.outcome.response)

\* C1: whenever connect() returns failure, the Session is Disconnected
\* afterwards, whatever the kind of failure.
C1_FailedConnectLeavesDisconnected ==
    (ConnectEnded /\ event.ret = "False") => ~_connected

\* C2: connect() returns success only if the response read during that same
\* call holds a success marker and no sourcetable or unauthorized marker.
C2_SuccessOnlyOnOwnResponse ==
    (ConnectEnded /\ event.ret = "True") =>
        /\ event.outcome.kind = "response"
        /\ HasSuccess
        /\ ~HasSourcetable
        /\ ~HasUnauthorized

\* C3: a connect() whose response holds both a success marker and a
\* sourcetable marker returns failure, whatever the protocol version is.
C3_SuccessWithSourcetableFails ==
    (GotResponse /\ HasSuccess /\ HasSourcetable) => event.ret = "False"

C3_Witness ==
    /\ GotResponse /\ HasSuccess /\ HasSourcetable
    /\ ~version_unset(ntrip_version)
    /\ event.ret = "False"

\* C4 as stated: a connect() whose response holds a success marker and no
\* sourcetable or unauthorized marker returns failure when the protocol
\* version is unset and success when it is set.
C4_UnsetVersionFails ==
    (GotResponse /\ HasSuccess /\ ~HasSourcetable /\ ~HasUnauthorized) =>
        event.ret = (IF version_unset(ntrip_version) THEN "False" ELSE "True")

\* C4 as amended: a connect() whose response holds a success marker and no
\* sourcetable or unauthorized marker returns success, whether the protocol
\* version is unset or set.
C4_SuccessWithoutErrorMarkerSucceeds ==
    (GotResponse /\ HasSuccess /\ ~HasSourcetable /\ ~HasUnauthorized) =>
        event.ret = "True"

C4_Witness ==
    /\ GotResponse /\ HasSuccess /\ ~HasSourcetable /\ ~HasUnauthorized
    /\ version_unset(ntrip_version)
    /\ event.ret = "True"

\* C5: a reconnect() that starts with the attempt counter at zero, is not
\* shut down, and whose connect attempts all fail makes
\* reconnect_attempt_max attempts, ends with the fatal reconnect-exhausted
\* condition, and leaves the attempt counter at zero and the Session
\* Disconnected (so that a later reconnect() does nothing).
C5_ExhaustedReconnect ==
    (/\ event.op = "reconnect_connect"
     /\ pc # "reconnect_sleep"
     /\ rc_from_zero /\ rc_all_failed /\ ~_shutdown) =>
        /\ event.result = "reconnect_exhausted"
        /\ rc_attempts = reconnect_attempt_max
        /\ _reconnect_attempt_count = 0
        /\ ~_connected

\* C6: whenever a connect attempt of the reconnect loop succeeds, reconnect()
\* returns normally with the attempt counter at zero and the Session
\* Connected, and reports no fatal condition.
C6_SuccessEndsReconnect ==
    (event.op = "reconnect_connect" /\ event.ret = "True") =>
        /\ pc = "reconnect_done"
        /\ event.result = "continue"
        /\ _reconnect_attempt_count = 0
        /\ _connected

\* C7: the reconnect-attempt counter is zero in every state in which no
\* iteration of a reconnect loop is running.
C7_CounterZeroOutsideLoop ==
    pc \notin {"reconnect_connect", "reconnect_sleep"} =>
        _reconnect_attempt_count = 0

\* C8: once the terminal flag is set, no step starts a connect attempt of a
\* reconnect loop: a reconnect() called afterwards makes none, and a running
\* loop stops at its next loop-top check.
C8_NoAttemptAfterShutdown ==
    [][_shutdown => ~(pc' = "reconnect_connect" /\ rc_attempts' # rc_attempts)]_vars

C8_Witness ==
    /\ _shutdown
    /\ event.op = "reconnect_wake"
    /\ pc = "reconnect_done"
    /\ rc_attempts >= 1

\* C9: every sentence send_nmea hands to the transport is handed over while
\* the Session is Connected, is the normalised argument, ends with CR LF and
\* is accepted by is_valid_sentence; when the Session is not Connected or
\* the normalised sentence is not accepted, nothing is sent and no counter
\* changes.
C9_ValidatorGatesEverySend ==
    [][/\ event'.sent =>
            /\ _connected
            /\ event'.wire = normalize_sentence(event'.arg)
            /\ LastChars(event'.wire, 2) = CRLF
            /\ is_valid_sentence(event'.wire) = "True"
       /\ (/\ event'.op = "send_nmea"
           /\ \/ ~_connected
              \/ is_valid_sentence(normalize_sentence(event'.arg)) # "True") =>
            /\ ~event'.sent
            /\ call_sends' = 0
            /\ call_reconnects' = 0
            /\ UNCHANGED <<_nmea_send_failed_count, _reconnect_attempt_count>>
      ]_vars

C9_Witness ==
    /\ event.op = "send_nmea"
    /\ event.sent
    /\ event.wire # event.arg

\* the send_nmea that called reconnect() has ended
SendNmeaWithReconnectEnded ==
    /\ pc = "idle"
    /\ caller = "send_nmea"
    /\ event.op \in {"send_nmea_retry", "reconnect_connect"}

\* C10 as stated: a send_nmea whose send failure brings the counter to its
\* maximum calls reconnect(), resets the counter and sends the sentence
\* exactly one more time.  (Stated for the calls in which no connect attempt
\* succeeded on the last permitted attempt and none failed leaving the
\* Session Connected.)
C10_AlwaysResetsAndRetries ==
    (/\ SendNmeaWithReconnectEnded
     /\ event.op = "reconnect_connect" => (event.ret = "False" /\ ~_connected)) =>
        /\ event.op = "send_nmea_retry"
        /\ event.sent
        /\ call_sends = 2
        /\ call_reconnects = 1
        /\ _nmea_send_failed_count <= 1

\* C10 as amended: a send_nmea whose send failure brings the counter to or
\* past its maximum calls reconnect(); if reconnect() returns normally the
\* counter is reset to zero and, if the Session is then Connected, the same
\* sentence is sent exactly one more time (if it is not, nothing more is
\* sent); if reconnect() raises, the counter is left as it was and nothing
\* more is sent.  One call makes at most two sends and at most one reconnect().
C10_RetryOnceAfterReconnectReturns ==
    [][/\ (event'.op = "send_nmea" \/ caller' = "send_nmea") =>
            /\ call_sends' <= 2
            /\ call_reconnects' <= 1
       /\ (/\ event'.op = "send_nmea"
           /\ _nmea_send_failed_count' > _nmea_send_failed_count
           /\ _nmea_send_failed_count' >= _nmea_send_failed_max) =>
            /\ call_reconnects' = 1
            /\ caller' = "send_nmea"
            /\ pc' \in {"reconnect_connect", "reconnect_done"}
       /\ event'.op = "send_nmea_retry" =>
            /\ pc' = "idle"
            /\ call_reconnects' = 1
            /\ IF _connected
               THEN /\ event'.sent
                    /\ event'.wire = sentence
                    /\ call_sends' = 2
                    /\ _nmea_send_failed_count' \in {0, 1}
               ELSE /\ ~event'.sent
                    /\ call_sends' = 1
                    /\ _nmea_send_failed_count' = 0
       /\ (/\ caller = "send_nmea"
           /\ event'.op = "reconnect_connect"
           /\ pc' = "idle") =>
            /\ event'.result \in {"reconnect_exhausted", "ssl"}
            /\ call_sends' = 1
            /\ _nmea_send_failed_count' = _nmea_send_failed_count
            /\ _nmea_send_failed_count' >= _nmea_send_failed_max
      ]_vars

C10_Witness ==
    /\ event.op = "send_nmea_retry"
    /\ event.sent
    /\ call_sends = 2
    /\ call_reconnects = 1

\* C13: disconnect() never lets an error out: whatever the transport raises
\* while it is shut down and closed, disconnect() returns normally and the
\* Session is Disconnected afterwards.
C13_DisconnectNeverRaises ==
    /\ event.escaped = "none"
    /\ event.op = "disconnect" => event.result = "return" /\ ~_connected

\* a disconnect() the host called met a failing shutdown and a failing close
C13_Witness ==
    /\ event.op = "disconnect"
    /\ event.logged = 2
    /\ event.result = "return"
    /\ ~_connected

\* the sentence passes the length, sentinel, line-ending and separator checks
\* and the text after its last "*" is not a hexadecimal number
NonHexChecksum(text) ==
    /\ Len(text) <= NMEA_DEFAULT_MAX_LENGTH
    /\ Len(text) >= NMEA_DEFAULT_MIN_LENGTH
    /\ text[1] \in {DOLLAR, BANG}
    /\ LastChars(text, 2) = CRLF
    /\ Contains(text, _NMEA_CHECKSUM_SEPERATOR)
    /\ ~ParseHex(SubSeq(text,
                        LastIndexOf(text, _NMEA_CHECKSUM_SEPERATOR) + 1,
                        Len(text))).ok

\* C14: a sentence whose text after the last "*" is not hexadecimal is
\* judged invalid without an error: send_nmea drops it and returns normally.
C14_NonHexChecksumIsDropped ==
    (/\ event.op \in {"send_nmea", "send_nmea_retry"}
     /\ NonHexChecksum(normalize_sentence(event.arg)))
    => (/\ event.result = "return"
        /\ ~event.sent)

\* the last step belongs to a connect() or a send_nmea() the host called
InConnectOrSendNmea ==
    \/ event.op \in {"connect", "send_nmea", "send_nmea_retry"}
    \/ event.op \in {"reconnect_connect", "reconnect_wake"}
       /\ caller = "send_nmea"

\* C16: the only error connect() or send_nmea() lets out to the caller is
\* the exhaustion of the reconnect attempts.
C16_OnlyExhaustionPropagates ==
    InConnectOrSendNmea
    => event.result \in {"continue", "return", "reconnect_exhausted"}

\* C17: a successful send resets the send-failure counter to zero.
C17_SuccessfulSendResetsCounter ==
    event.delivered => _nmea_send_failed_count = 0

\* C20: once shutdown() has been called the Session is never Connected
\* again, whatever is called later and whatever was running at the time.
C20_ShutdownIsTerminal ==
    _shutdown => ~_connected

\* the last step ran recv_rtcm, from its call or after one of its reconnect()s
InRecvRtcm == event.op \in {"recv_rtcm", "recv_rtcm_resume"}

\* C11: a recv_rtcm() that reads a non-empty chunk resets the empty-read
\* counter to zero.
C11_NonEmptyReadResetsCounter ==
    (InRecvRtcm /\ event.result = "return" /\ call_parsed # <<>>)
    => _read_zero_bytes_count = 0

\* C12: when recv_rtcm() ends, every chunk it read from the transport has
\* been handed to the RTCM parser, once and in the order of arrival, also
\* when a later read of the call failed and the call reconnected.
C12_EveryByteReadIsParsed ==
    (InRecvRtcm /\ pc = "idle") => call_parsed = call_read

\* C18: when a recv_rtcm() whose watchdog called reconnect() is over, the
\* "ever received" flag is false unless the call itself read new data, also
\* when that reconnect() ended with the exhaustion of its attempts.
C18_WatchdogReconnectClearsFlag ==
    (pc = "idle" /\ call_watchdog)
    => (_first_rtcm_received => call_parsed # <<>>)

\* C19: on a connection made by a reconnect() that a send failure, the
\* empty-read threshold or a closed transport triggered, the watchdog calls
\* reconnect() only when the RTCM timeout has elapsed since that reconnect.
C19_NoWatchdogOnFreshConnection ==
    (event.watchdog /\ fresh_since # <<>>)
    => now - rtcm_timeout_seconds >= fresh_since[1]

\* the text is a sentinel, a data field, "*", two hexadecimal digits and
\* CR LF, and its length is within the bounds
Framed(text) ==
    /\ Len(text) >= FramedLength
    /\ Len(text) >= NMEA_DEFAULT_MIN_LENGTH
    /\ Len(text) <= NMEA_DEFAULT_MAX_LENGTH
    /\ text[1] \in {DOLLAR, BANG}
    /\ text[Len(text) - 4] = _NMEA_CHECKSUM_SEPERATOR
    /\ IsHexDigit(text[Len(text) - 3])
    /\ IsHexDigit(text[Len(text) - 2])
    /\ LastChars(text, 2) = CRLF
DataField(text) == SubSeq(text, 2, Len(text) - 5)
RECURSIVE XorOf(_)
XorOf(s) ==
    IF s = <<>> THEN 0
    ELSE IF Len(s) = 1 THEN s[1]
    ELSE BitXor(XorOf(SubSeq(s, 1, Len(s) \div 2)),
                XorOf(SubSeq(s, Len(s) \div 2 + 1, Len(s))))
StatedChecksum(text) ==
    16 * HexDigitValue(text[Len(text) - 3]) + HexDigitValue(text[Len(text) - 2])

\* C15: a framed sentence is valid exactly when its two hexadecimal digits
\* are the XOR of the characters between the sentinel and the last "*", and
\* a valid one with one character of that span changed is invalid.
C15_ValidIffChecksumMatches ==
    /\ (event.op = "is_valid_sentence" /\ Framed(event.arg))
       => (event.ret = "True"
           <=> StatedChecksum(event.arg) = XorOf(DataField(event.arg)))
    /\ (/\ event.op = "is_valid_sentence"
        /\ event.wire # <<>>
        /\ Framed(event.wire)
        /\ is_valid_sentence(event.wire) = "True")
       => event.ret = "False"

\* a valid sentence that contains "*" in its data field had one character
\* of the field changed and was found invalid
C15_Witness ==
    /\ event.op = "is_valid_sentence"
    /\ event.wire # <<>>
    /\ Framed(event.wire)
    /\ Contains(DataField(event.wire), _NMEA_CHECKSUM_SEPERATOR)
    /\ is_valid_sentence(event.wire) = "True"
    /\ event.ret = "False"

=============================================================================
